---- MODULE Spec2Model ----
(***************************************************************************)
(* Scorecard (Jet612/Scorecard): the App component of src/README.md, its   *)
(* five persisted state fields, the derived values computed while          *)
(* rendering, the event handlers and the localStorage effects.             *)
(*                                                                         *)
(* Representation.                                                         *)
(*  - A JavaScript string that the code inspects character by character    *)
(*    (a score typed into an input, a player name, the text stored for     *)
(*    activeRoundIndex, a player id) is a sequence of one-character        *)
(*    strings.                                                             *)
(*  - A JavaScript number is a record [nan, n]: NaN, or the integer n.     *)
(*  - A round (RoundScores, src/types.ts:7) is a function from player ids  *)
(*    to integers; a key absent from its DOMAIN is an absent property.     *)
(*  - A text stored for players / rounds is represented by what            *)
(*    JSON.parse makes of it: [kind, doc] with kind "array" (doc is the    *)
(*    array), "null" (the text null), "unparsable" (JSON.parse throws)     *)
(*    or "empty" (the empty string).                                       *)
(*  - Array indices are 0-based in the code and 1-based here:              *)
(*    rounds[activeRoundIndex] is rounds[activeRoundIndex.n + 1].          *)
(***************************************************************************)
EXTENDS Integers, Sequences, FiniteSets, TLC

VARIABLES players, rounds, activeRoundIndex, winCondition, sortBy,
          storage, now, phase

vars == <<players, rounds, activeRoundIndex, winCondition, sortBy,
          storage, now, phase>>

state == <<players, rounds, activeRoundIndex, winCondition, sortBy>>

(***************************************************************************)
(* Bounds of the model.                                                    *)
(***************************************************************************)
MaxPlayers == 2
MaxRounds == 2
MaxClock == 2

(***************************************************************************)
(* JavaScript numbers and the two conversions the code applies to them.    *)
(***************************************************************************)
Num(n) == [nan |-> FALSE, n |-> n]

NaN == [nan |-> TRUE, n |-> 0]

Digits == <<"0", "1", "2", "3", "4", "5", "6", "7", "8", "9">>

IsDigit(c) == \E d \in 1..10 : Digits[d] = c

DigitVal(c) == (CHOOSE d \in 1..10 : Digits[d] = c) - 1

IsSpace(c) == c = " "

RECURSIVE SkipSpace(_)
SkipSpace(s) ==
  IF s # <<>> /\ IsSpace(Head(s)) THEN SkipSpace(Tail(s)) ELSE s

RECURSIVE DigitPrefix(_)
DigitPrefix(s) ==
  IF s # <<>> /\ IsDigit(Head(s))
  THEN <<Head(s)>> \o DigitPrefix(Tail(s))
  ELSE <<>>

RECURSIVE DigitsValue(_)
DigitsValue(d) ==
  IF d = <<>> THEN 0
  ELSE 10 * DigitsValue(SubSeq(d, 1, Len(d) - 1)) + DigitVal(d[Len(d)])

\* parseInt(s, 10): leading white space is skipped, one sign is read, then the
\* longest run of decimal digits; whatever follows is ignored, and the result
\* is NaN when there is no digit.
parseInt(s) ==
  LET t == SkipSpace(s)
      signed == t # <<>> /\ Head(t) \in {"-", "+"}
      u == IF signed THEN Tail(t) ELSE t
      d == DigitPrefix(u)
  IN IF d = <<>> THEN NaN
     ELSE IF signed /\ Head(t) = "-" THEN Num(0 - DigitsValue(d))
     ELSE Num(DigitsValue(d))

isNaN(x) == x.nan

RECURSIVE NatToString(_)
NatToString(n) ==
  IF n < 10 THEN <<Digits[n + 1]>>
  ELSE NatToString(n \div 10) \o <<Digits[(n % 10) + 1]>>

\* Number.prototype.toString()
numberToString(x) ==
  IF x.nan THEN <<"N", "a", "N">>
  ELSE IF x.n < 0 THEN <<"-">> \o NatToString(0 - x.n)
  ELSE NatToString(x.n)

\* String.prototype.trim()
RECURSIVE TrimEnd(_)
TrimEnd(s) ==
  IF s # <<>> /\ IsSpace(s[Len(s)]) THEN TrimEnd(SubSeq(s, 1, Len(s) - 1)) ELSE s

trim(s) == TrimEnd(SkipSpace(s))

(***************************************************************************)
(* Inputs of the handlers.                                                 *)
(***************************************************************************)
\* Texts of the "Player Name" input.
RawNames == { <<>>, <<" ">>, <<"a">>, <<" ", "b", " ">> }

\* Texts handed to handleScoreChange.
RawValues == { <<>>, <<"-", "7">>, <<"7">>, <<"7", "a", "b", "c">>,
               <<"a", "b", "c">>, <<"7", ".", "5">>, <<"-">> }

SortOptions == {"default", "scoreDesc", "scoreAsc", "nameAsc"}

WinConditions == {"high", "low"}

\* The ids Date.now().toString() can produce within the clock's range.
AllIds == { numberToString(Num(t)) : t \in 1..MaxClock }

EmptyRound == [k \in {} |-> 0]

(***************************************************************************)
(* localStorage: five keys, each missing or holding a text.                *)
(***************************************************************************)
Keys == <<"cardScore_players", "cardScore_rounds", "cardScore_activeRoundIndex",
          "cardScore_winCondition", "cardScore_sortBy">>

Missing(blank) == [has |-> FALSE, text |-> blank]

Stored(text) == [has |-> TRUE, text |-> text]

JsonText(kind, doc) == [kind |-> kind, doc |-> doc]

\* JSON.stringify of an array of plain objects holding strings and finite
\* numbers: the text that parses back to that array.
JSONstringify(arr) == JsonText("array", arr)

EmptyStorage ==
  [cardScore_players |-> Missing(JsonText("empty", <<>>)),
   cardScore_rounds |-> Missing(JsonText("empty", <<>>)),
   cardScore_activeRoundIndex |-> Missing(<<>>),
   cardScore_winCondition |-> Missing(""),
   cardScore_sortBy |-> Missing("")]

\* `saved ? ... : ...` on the result of getItem: null and "" are falsy.
TruthyJson(e) == e.has /\ e.text.kind # "empty"

\* useState initializer of players: [isArray, arr] is the value the state
\* starts with; isArray is FALSE when it is null.
loadPlayers(st) ==
  LET saved == st.cardScore_players
  IN IF ~TruthyJson(saved) THEN [isArray |-> TRUE, arr |-> <<>>]
     ELSE IF saved.text.kind = "unparsable" THEN [isArray |-> TRUE, arr |-> <<>>]
     ELSE IF saved.text.kind = "null" THEN [isArray |-> FALSE, arr |-> <<>>]
     ELSE [isArray |-> TRUE, arr |-> saved.text.doc]

\* useState initializer of rounds.
loadRounds(st) ==
  LET saved == st.cardScore_rounds
  IN IF ~TruthyJson(saved) THEN [isArray |-> TRUE, arr |-> <<EmptyRound>>]
     ELSE IF saved.text.kind = "unparsable" THEN [isArray |-> TRUE, arr |-> <<EmptyRound>>]
     ELSE IF saved.text.kind = "null" THEN [isArray |-> FALSE, arr |-> <<>>]
     ELSE [isArray |-> TRUE, arr |-> saved.text.doc]

\* useState initializer of activeRoundIndex.
loadActiveRoundIndex(st) ==
  LET saved == st.cardScore_activeRoundIndex
  IN IF saved.has /\ saved.text # <<>> THEN parseInt(saved.text) ELSE Num(0)

\* useState initializer of winCondition.
loadWinCondition(st) ==
  LET saved == st.cardScore_winCondition
  IN IF saved.has /\ saved.text \in {"high", "low"} THEN saved.text ELSE "high"

\* useState initializer of sortBy.
loadSortBy(st) ==
  LET saved == st.cardScore_sortBy
  IN IF saved.has /\ saved.text # "" /\ saved.text \in SortOptions
     THEN saved.text ELSE "default"

\* Mutant: the round number shown to the user ("Round N", 1-based) is stored.
Serialized_RoundNumber(ps, rs, idx, wc, sb) ==
  [cardScore_players |-> Stored(JSONstringify(ps)),
   cardScore_rounds |-> Stored(JSONstringify(rs)),
   cardScore_activeRoundIndex |->
     Stored(numberToString(IF idx.nan THEN idx ELSE Num(idx.n + 1))),
   cardScore_winCondition |-> Stored(wc),
   cardScore_sortBy |-> Stored(sb)]

\* The text each persistence effect hands to localStorage.setItem.
Serialized(ps, rs, idx, wc, sb) ==
  [cardScore_players |-> Stored(JSONstringify(ps)),
   cardScore_rounds |-> Stored(JSONstringify(rs)),
   cardScore_activeRoundIndex |-> Stored(numberToString(idx)),
   cardScore_winCondition |-> Stored(wc),
   cardScore_sortBy |-> Stored(sb)]

FieldNames == {Keys[i] : i \in 1..5}

\* Mutant: the effect of activeRoundIndex has an empty dependency list and
\* runs at the first commit only.
Persist_IndexAtMountOnly(changed, failAt, ps, rs, idx, wc, sb) ==
  LET ser == Serialized(ps, rs, idx, wc, sb)
      run == IF changed = 1..5 THEN changed ELSE changed \ {3}
      written == IF failAt = 0 THEN run ELSE {i \in run : i < failAt}
  IN /\ failAt \in run \cup {0}
     /\ storage' = [f \in FieldNames |->
                      IF \E i \in written : Keys[i] = f THEN ser[f] ELSE storage[f]]
     /\ phase' = IF failAt = 0 THEN "running" ELSE "writeError"

\* The persistence effects of one commit. changed: the positions in Keys of
\* the effects whose dependency changed. They run in the order of their
\* declaration and setItem may throw (quota exceeded): the effects before
\* position failAt have written, the one at failAt throws, the rest of the
\* commit's effects is abandoned and the application is torn down.
\* failAt = 0: no write fails.
Persist(changed, failAt, ps, rs, idx, wc, sb) ==
  LET ser == Serialized(ps, rs, idx, wc, sb)
      written == IF failAt = 0 THEN changed ELSE {i \in changed : i < failAt}
  IN /\ failAt \in changed \cup {0}
     /\ storage' = [f \in FieldNames |->
                      IF \E i \in written : Keys[i] = f THEN ser[f] ELSE storage[f]]
     /\ phase' = IF failAt = 0 THEN "running" ELSE "writeError"

(***************************************************************************)
(* Derived state, recomputed at every render.                              *)
(***************************************************************************)
PlayerIds(ps) == { ps[i].id : i \in 1..Len(ps) }

\* Object.entries(round).forEach: an entry is added to the total of its key
\* when the totals have that key.
RECURSIVE AddEntries(_, _, _)
AddEntries(totals, round, keys) ==
  IF keys = {} THEN totals
  ELSE LET playerId == CHOOSE k \in keys : TRUE
       IN AddEntries(IF playerId \in DOMAIN totals
                     THEN [totals EXCEPT ![playerId] = @ + round[playerId]]
                     ELSE totals,
                     round, keys \ {playerId})

\* rounds.forEach
RECURSIVE AddRounds(_, _, _)
AddRounds(totals, rs, i) ==
  IF i > Len(rs) THEN totals
  ELSE AddRounds(AddEntries(totals, rs[i], DOMAIN rs[i]), rs, i + 1)

\* Mutant: every key found in a round gets a total, removed players included.
totalScores_AllKeys(ps, rs) ==
  AddRounds([id \in PlayerIds(ps) \cup UNION { DOMAIN rs[i] : i \in 1..Len(rs) } |-> 0],
            rs, 1)

totalScores(ps, rs) == AddRounds([id \in PlayerIds(ps) |-> 0], rs, 1)

Null == [isNull |-> TRUE, id |-> <<>>]

Some(id) == [isNull |-> FALSE, id |-> id]

\* Mutant: >= and <= in place of > and <, the last of the tied players wins.
RECURSIVE LeaderScan_LastTie(_, _, _, _, _, _)
LeaderScan_LastTie(ps, totals, wc, i, best, leader) ==
  IF i > Len(ps) THEN leader
  ELSE LET score == totals[ps[i].id]
           better == IF leader.isNull THEN TRUE
                     ELSE IF wc = "high" THEN score >= best ELSE score <= best
       IN IF better
          THEN LeaderScan_LastTie(ps, totals, wc, i + 1, score, Some(ps[i].id))
          ELSE LeaderScan_LastTie(ps, totals, wc, i + 1, best, leader)

\* The for loop of leaderId. While leader is null, bestScore is still the
\* initial -Infinity / Infinity, which every total beats.
RECURSIVE LeaderScan(_, _, _, _, _, _)
LeaderScan(ps, totals, wc, i, best, leader) ==
  IF i > Len(ps) THEN leader
  ELSE LET score == totals[ps[i].id]
           better == IF leader.isNull THEN TRUE
                     ELSE IF wc = "high" THEN score > best ELSE score < best
       IN IF better
          THEN LeaderScan(ps, totals, wc, i + 1, score, Some(ps[i].id))
          ELSE LeaderScan(ps, totals, wc, i + 1, best, leader)

\* Mutant: without the allZero test.
leaderId_NoZeroTest(ps, totals, wc) ==
  IF Len(ps) = 0 THEN Null
  ELSE LeaderScan(ps, totals, wc, 1, 0, Null)

leaderId(ps, totals, wc) ==
  IF Len(ps) = 0 THEN Null
  ELSE IF \A i \in 1..Len(ps) : totals[ps[i].id] = 0 THEN Null
  ELSE LeaderScan(ps, totals, wc, 1, 0, Null)

\* The letters of the names, in the order of the locale's collation.
Alphabet == <<"a", "b">>

CollationRank(c) == CHOOSE i \in 1..Len(Alphabet) : Alphabet[i] = c

\* a.localeCompare(b): negative, 0 or positive.
RECURSIVE localeCompare(_, _)
localeCompare(a, b) ==
  IF a = <<>> /\ b = <<>> THEN 0
  ELSE IF a = <<>> THEN 0 - 1
  ELSE IF b = <<>> THEN 1
  ELSE IF CollationRank(Head(a)) < CollationRank(Head(b)) THEN 0 - 1
  ELSE IF CollationRank(Head(a)) > CollationRank(Head(b)) THEN 1
  ELSE localeCompare(Tail(a), Tail(b))

\* Mutant: 'scoreDesc' compares as 'scoreAsc' does.
comparePlayers_DescAsAsc(a, b, totals, sb) ==
  IF sb = "scoreDesc" THEN totals[a.id] - totals[b.id]
  ELSE IF sb = "scoreAsc" THEN totals[a.id] - totals[b.id]
  ELSE localeCompare(a.name, b.name)

\* The comparison functions handed to sort.
comparePlayers(a, b, totals, sb) ==
  IF sb = "scoreDesc" THEN totals[b.id] - totals[a.id]
  ELSE IF sb = "scoreAsc" THEN totals[a.id] - totals[b.id]
  ELSE localeCompare(a.name, b.name)

\* Array.prototype.sort is stable: an element goes before the first element
\* that compares greater than it, after those that compare equal.
RECURSIVE InsertInOrder(_, _, _, _)
InsertInOrder(sorted, x, totals, sb) ==
  IF sorted = <<>> THEN <<x>>
  ELSE IF comparePlayers(Head(sorted), x, totals, sb) > 0 THEN <<x>> \o sorted
  ELSE <<Head(sorted)>> \o InsertInOrder(Tail(sorted), x, totals, sb)

RECURSIVE ArraySort(_, _, _, _)
ArraySort(arr, n, totals, sb) ==
  IF n = 0 THEN <<>>
  ELSE InsertInOrder(ArraySort(arr, n - 1, totals, sb), arr[n], totals, sb)

\* sortedPlayers: sorted is the value of the memo, players the array players
\* after it has run (the sort works on the copy [...players]).
sortedPlayers(ps, totals, sb) ==
  [sorted |-> IF sb \in {"scoreDesc", "scoreAsc", "nameAsc"}
              THEN ArraySort(ps, Len(ps), totals, sb)
              ELSE ps,
   players |-> ps]

(***************************************************************************)
(* Start-up.                                                               *)
(***************************************************************************)
\* The page before the App component is rendered for the first time, with a
\* localStorage no session has written to.
Init ==
  /\ players = <<>>
  /\ rounds = <<EmptyRound>>
  /\ activeRoundIndex = Num(0)
  /\ winCondition = "high"
  /\ sortBy = "default"
  /\ storage = EmptyStorage
  /\ now = 1
  /\ phase = "boot"

\* First render of App: the five useState initializers read localStorage,
\* the derived state is computed (players.forEach and rounds.forEach throw
\* on null), and after the commit the five persistence effects run.
Mount ==
  /\ phase = "boot"
  /\ now' = now
  /\ LET ps == loadPlayers(storage)
         rs == loadRounds(storage)
     IN IF ~ps.isArray \/ ~rs.isArray
        THEN /\ phase' = "renderError"
             /\ UNCHANGED <<state, storage>>
        ELSE /\ players' = ps.arr
             /\ rounds' = rs.arr
             /\ activeRoundIndex' = loadActiveRoundIndex(storage)
             /\ winCondition' = loadWinCondition(storage)
             /\ sortBy' = loadSortBy(storage)
             /\ \E failAt \in 0..5 :
                  Persist(1..5, failAt, players', rounds', activeRoundIndex',
                          winCondition', sortBy')

(***************************************************************************)
(* Handlers.                                                               *)
(***************************************************************************)
Plus(x, k) == IF x.nan THEN NaN ELSE Num(x.n + k)

IndexInRange == ~activeRoundIndex.nan /\ activeRoundIndex.n \in 0..(Len(rounds) - 1)

\* Mutant: the name is neither tested nor stored trimmed.
handleAddPlayer_NoTrim(newPlayerName) ==
  /\ phase = "running"
  /\ IF newPlayerName = <<>>
     THEN UNCHANGED vars
     ELSE /\ Len(players) < MaxPlayers
          /\ players' = Append(players, [id |-> numberToString(Num(now)),
                                         name |-> newPlayerName])
          /\ UNCHANGED <<rounds, activeRoundIndex, winCondition, sortBy, now>>
          /\ \E failAt \in {0, 1} :
               Persist({1}, failAt, players', rounds', activeRoundIndex',
                       winCondition', sortBy')

handleAddPlayer(newPlayerName) ==
  /\ phase = "running"
  /\ IF trim(newPlayerName) = <<>>
     THEN UNCHANGED vars
     ELSE /\ Len(players) < MaxPlayers
          /\ players' = Append(players, [id |-> numberToString(Num(now)),
                                         name |-> trim(newPlayerName)])
          /\ UNCHANGED <<rounds, activeRoundIndex, winCondition, sortBy, now>>
          /\ \E failAt \in {0, 1} :
               Persist({1}, failAt, players', rounds', activeRoundIndex',
                       winCondition', sortBy')

\* Mutant: without the spread of the previous round.
RoundWith_NoSpread(round, playerId, numValue) ==
  [k \in {playerId} |-> numValue]

\* { ...round, [playerId]: numValue }
RoundWith(round, playerId, numValue) ==
  [k \in DOMAIN round \cup {playerId} |->
     IF k = playerId THEN numValue ELSE round[k]]

\* playerId is the id of a rendered player. The active round exists
\* (IndexInRange is an invariant of Spec).
handleScoreChange(playerId, value) ==
  /\ phase = "running"
  /\ playerId \in PlayerIds(players)
  /\ IndexInRange
  /\ LET numValue == IF value = <<>> THEN Num(0) ELSE parseInt(value)
     IN IF isNaN(numValue)
        THEN UNCHANGED vars
        ELSE /\ rounds' = [rounds EXCEPT ![activeRoundIndex.n + 1] =
                             RoundWith(@, playerId, numValue.n)]
             /\ UNCHANGED <<players, activeRoundIndex, winCondition, sortBy, now>>
             /\ \E failAt \in {0, 2} :
                  Persist({2}, failAt, players', rounds', activeRoundIndex',
                          winCondition', sortBy')

\* Mutant: the index moves on without a round being appended.
handleNextRound_NoAppend ==
  /\ phase = "running"
  /\ ~activeRoundIndex.nan
  /\ activeRoundIndex.n + 1 < MaxRounds
  /\ activeRoundIndex' = Plus(activeRoundIndex, 1)
  /\ UNCHANGED <<players, rounds, winCondition, sortBy, now>>
  /\ \E failAt \in {0, 3} :
       Persist({3}, failAt, players', rounds', activeRoundIndex',
               winCondition', sortBy')

\* Mutant: a round is appended at every call, whatever the active round.
handleNextRound_AlwaysAppend ==
  /\ phase = "running"
  /\ ~activeRoundIndex.nan
  /\ activeRoundIndex.n + 1 < MaxRounds
  /\ activeRoundIndex' = Plus(activeRoundIndex, 1)
  /\ UNCHANGED <<players, winCondition, sortBy, now>>
  /\ rounds' = Append(rounds, EmptyRound)
  /\ \E failAt \in {0, 2, 3} :
       Persist({2, 3}, failAt, players', rounds', activeRoundIndex',
               winCondition', sortBy')

handleNextRound ==
  /\ phase = "running"
  /\ ~activeRoundIndex.nan
  /\ activeRoundIndex.n + 1 < MaxRounds
  /\ activeRoundIndex' = Plus(activeRoundIndex, 1)
  /\ UNCHANGED <<players, winCondition, sortBy, now>>
  /\ IF activeRoundIndex.n = Len(rounds) - 1
     THEN /\ rounds' = Append(rounds, EmptyRound)
          /\ \E failAt \in {0, 2, 3} :
               Persist({2, 3}, failAt, players', rounds', activeRoundIndex',
                       winCondition', sortBy')
     ELSE /\ rounds' = rounds
          /\ \E failAt \in {0, 3} :
               Persist({3}, failAt, players', rounds', activeRoundIndex',
                       winCondition', sortBy')

\* Mutant: without the test activeRoundIndex > 0.
handlePrevRound_NoGuard ==
  /\ phase = "running"
  /\ activeRoundIndex' = Plus(activeRoundIndex, 0 - 1)
  /\ UNCHANGED <<players, rounds, winCondition, sortBy, now>>
  /\ \E failAt \in {0, 3} :
       Persist({3}, failAt, players', rounds', activeRoundIndex',
               winCondition', sortBy')

handlePrevRound ==
  /\ phase = "running"
  /\ IF ~activeRoundIndex.nan /\ activeRoundIndex.n > 0
     THEN /\ activeRoundIndex' = Plus(activeRoundIndex, 0 - 1)
          /\ UNCHANGED <<players, rounds, winCondition, sortBy, now>>
          /\ \E failAt \in {0, 3} :
               Persist({3}, failAt, players', rounds', activeRoundIndex',
                       winCondition', sortBy')
     ELSE UNCHANGED vars

\* Mutant: only the first player with the id is taken out
\* (splice at findIndex).
RECURSIVE FilterOut_FirstOnly(_, _)
FilterOut_FirstOnly(ps, id) ==
  IF ps = <<>> THEN <<>>
  ELSE IF Head(ps).id # id THEN <<Head(ps)>> \o FilterOut_FirstOnly(Tail(ps), id)
  ELSE Tail(ps)

\* players.filter(p => p.id !== id)
RECURSIVE FilterOut(_, _)
FilterOut(ps, id) ==
  IF ps = <<>> THEN <<>>
  ELSE IF Head(ps).id # id THEN <<Head(ps)>> \o FilterOut(Tail(ps), id)
  ELSE FilterOut(Tail(ps), id)

\* Mutant: the entries of the removed player are purged from every round.
handleDeletePlayer_Purge(id) ==
  /\ phase = "running"
  /\ players' = FilterOut(players, id)
  /\ rounds' = [i \in 1..Len(rounds) |->
                  [k \in DOMAIN rounds[i] \ {id} |-> rounds[i][k]]]
  /\ UNCHANGED <<activeRoundIndex, winCondition, sortBy, now>>
  /\ \E failAt \in {0, 1, 2} :
       Persist({1, 2}, failAt, players', rounds', activeRoundIndex',
               winCondition', sortBy')

handleDeletePlayer(id) ==
  /\ phase = "running"
  /\ players' = FilterOut(players, id)
  /\ UNCHANGED <<rounds, activeRoundIndex, winCondition, sortBy, now>>
  /\ \E failAt \in {0, 1} :
       Persist({1}, failAt, players', rounds', activeRoundIndex',
               winCondition', sortBy')

\* Mutant: the players are cleared too (the setPlayers([]) the comment in
\* resetGame mentions).
resetGame_ClearsPlayers(confirmed) ==
  /\ phase = "running"
  /\ IF confirmed
     THEN /\ rounds' = <<EmptyRound>>
          /\ activeRoundIndex' = Num(0)
          /\ players' = <<>>
          /\ UNCHANGED <<winCondition, sortBy, now>>
          /\ LET changed == IF activeRoundIndex = Num(0) THEN {1, 2} ELSE {1, 2, 3}
             IN \E failAt \in changed \cup {0} :
                  Persist(changed, failAt, players', rounds', activeRoundIndex',
                          winCondition', sortBy')
     ELSE UNCHANGED vars

\* Mutant: the rounds are emptied, setRounds([]).
resetGame_NoRound(confirmed) ==
  /\ phase = "running"
  /\ IF confirmed
     THEN /\ rounds' = <<>>
          /\ activeRoundIndex' = Num(0)
          /\ UNCHANGED <<players, winCondition, sortBy, now>>
          /\ LET changed == IF activeRoundIndex = Num(0) THEN {2} ELSE {2, 3}
             IN \E failAt \in changed \cup {0} :
                  Persist(changed, failAt, players', rounds', activeRoundIndex',
                          winCondition', sortBy')
     ELSE UNCHANGED vars

\* confirmed: the answer to window.confirm. Setting activeRoundIndex to the
\* value it already has schedules no effect.
resetGame(confirmed) ==
  /\ phase = "running"
  /\ IF confirmed
     THEN /\ rounds' = <<EmptyRound>>
          /\ activeRoundIndex' = Num(0)
          /\ UNCHANGED <<players, winCondition, sortBy, now>>
          /\ LET changed == IF activeRoundIndex = Num(0) THEN {2} ELSE {2, 3}
             IN \E failAt \in changed \cup {0} :
                  Persist(changed, failAt, players', rounds', activeRoundIndex',
                          winCondition', sortBy')
     ELSE UNCHANGED vars

toggleWinCondition ==
  /\ phase = "running"
  /\ winCondition' = IF winCondition = "high" THEN "low" ELSE "high"
  /\ UNCHANGED <<players, rounds, activeRoundIndex, sortBy, now>>
  /\ \E failAt \in {0, 4} :
       Persist({4}, failAt, players', rounds', activeRoundIndex',
               winCondition', sortBy')

\* onChange of the sort <select>
setSortBy(value) ==
  /\ phase = "running"
  /\ sortBy' = value
  /\ UNCHANGED <<players, rounds, activeRoundIndex, winCondition, now>>
  /\ LET changed == IF value = sortBy THEN {} ELSE {5}
     IN \E failAt \in changed \cup {0} :
          Persist(changed, failAt, players', rounds', activeRoundIndex',
                  winCondition', sortBy')

\* Time passes: a later Date.now() reads a later millisecond.
Tick ==
  /\ now < MaxClock
  /\ now' = now + 1
  /\ UNCHANGED <<state, storage, phase>>

AddPlayer == \E newPlayerName \in RawNames : handleAddPlayer(newPlayerName)

ScoreChange == \E playerId \in AllIds, value \in RawValues : handleScoreChange(playerId, value)

DeletePlayer == \E id \in AllIds : handleDeletePlayer(id)

ResetGame == \E confirmed \in BOOLEAN : resetGame(confirmed)

SetSortBy == \E value \in SortOptions : setSortBy(value)

Next ==
  \/ Mount
  \/ AddPlayer
  \/ ScoreChange
  \/ handleNextRound
  \/ handlePrevRound
  \/ DeletePlayer
  \/ ResetGame
  \/ toggleWinCondition
  \/ SetSortBy
  \/ Tick

Spec == Init /\ [][Next]_vars

(***************************************************************************)
(* Invariants of the representation.                                       *)
(***************************************************************************)
TypeOK ==
  /\ phase \in {"boot", "running", "writeError", "renderError"}
  /\ now \in 1..MaxClock
  /\ winCondition \in WinConditions
  /\ sortBy \in SortOptions
  /\ Len(players) <= MaxPlayers
  /\ Len(rounds) <= MaxRounds

(***************************************************************************)
(* Start-up over a localStorage with arbitrary contents: what an earlier   *)
(* session, another version or the user left under the five keys.          *)
(***************************************************************************)
StoredPlayers ==
  { Missing(JsonText("empty", <<>>)),
    Stored(JsonText("empty", <<>>)),
    Stored(JsonText("unparsable", <<>>)),
    Stored(JsonText("null", <<>>)),
    Stored(JsonText("array", <<>>)),
    Stored(JsonText("array", <<[id |-> <<"1">>, name |-> <<"a">>]>>)) }

StoredRounds ==
  { Missing(JsonText("empty", <<>>)),
    Stored(JsonText("empty", <<>>)),
    Stored(JsonText("unparsable", <<>>)),
    Stored(JsonText("null", <<>>)),
    Stored(JsonText("array", <<EmptyRound>>)),
    Stored(JsonText("array", <<[k \in {<<"1">>} |-> 7], EmptyRound>>)) }

StoredIndex ==
  { Missing(<<>>), Stored(<<>>), Stored(<<"0">>), Stored(<<"1">>),
    Stored(<<"a", "b", "c">>), Stored(<<"1", ".", "5">>) }

StoredWinCondition ==
  { Missing(""), Stored(""), Stored("high"), Stored("low"), Stored("HIGH") }

StoredSortBy ==
  { Missing(""), Stored(""), Stored("default"), Stored("scoreDesc"),
    Stored("scoreAsc"), Stored("nameAsc"), Stored("bogus") }

InitLoad ==
  /\ players = <<>>
  /\ rounds = <<EmptyRound>>
  /\ activeRoundIndex = Num(0)
  /\ winCondition = "high"
  /\ sortBy = "default"
  /\ storage \in [cardScore_players : StoredPlayers,
                  cardScore_rounds : StoredRounds,
                  cardScore_activeRoundIndex : StoredIndex,
                  cardScore_winCondition : StoredWinCondition,
                  cardScore_sortBy : StoredSortBy]
  /\ now = 1
  /\ phase = "boot"

NextLoad == Mount

SpecLoad == InitLoad /\ [][NextLoad]_vars

(***************************************************************************)
(* The leaderboard: a running game of up to MaxSortPlayers players with    *)
(* one scored round, in which the user changes the sort order.             *)
(***************************************************************************)
MaxSortPlayers == 3

\* The names handleAddPlayer can store.
StoredNames == { trim(raw) : raw \in RawNames } \ { <<>> }

\* The scores handleScoreChange can store.
StoredScores == { parseInt(value).n : value \in { v \in RawValues : ~isNaN(parseInt(v)) } }
                  \cup {0}

\* The ids of players added at three different clock readings.
SortIds == { numberToString(Num(t)) : t \in {1, 2, 3} }

InitSort ==
  /\ players \in UNION { [1..n -> [id : SortIds, name : StoredNames]] :
                           n \in 0..MaxSortPlayers }
  /\ rounds \in { <<round>> : round \in [SortIds -> StoredScores] }
  /\ activeRoundIndex = Num(0)
  /\ winCondition = "high"
  /\ sortBy = "default"
  /\ storage = Serialized(players, rounds, activeRoundIndex, winCondition, sortBy)
  /\ now = 1
  /\ phase = "running"

NextSort == SetSortBy

SpecSort == InitSort /\ [][NextSort]_vars

(***************************************************************************)
(* Properties.                                                             *)
(***************************************************************************)
\* The sum of the entries of id over the rounds, an absent entry counting 0.
RECURSIVE SumOfEntries(_, _)
SumOfEntries(id, rs) ==
  IF rs = <<>> THEN 0
  ELSE (IF id \in DOMAIN Head(rs) THEN Head(rs)[id] ELSE 0) + SumOfEntries(id, Tail(rs))

\* Keys of the rounds that are no current player's id.
OrphanKeys == { k \in UNION { DOMAIN rounds[i] : i \in 1..Len(rounds) } :
                  k \notin PlayerIds(players) }

\* C1: from the default initial state, after any sequence of the store's
\* operations, activeRoundIndex is an integer with
\* 0 <= activeRoundIndex <= rounds.length - 1.
C1_ActiveRoundIndexInRange ==
  /\ ~activeRoundIndex.nan
  /\ 0 <= activeRoundIndex.n
  /\ activeRoundIndex.n <= Len(rounds) - 1

\* A round was appended by handleNextRound and is the active round.
C1_Witness ==
  /\ phase = "running"
  /\ Len(rounds) >= 2
  /\ activeRoundIndex.n = Len(rounds) - 1

\* C2: the totals have exactly the ids of the current players as keys, each
\* total is the sum of that player's entries over all rounds, and removing a
\* player removes that player's key only and changes no other total.
C2_TotalsPerCurrentPlayer ==
  LET totals == totalScores(players, rounds)
  IN /\ DOMAIN totals = PlayerIds(players)
     /\ \A id \in PlayerIds(players) : totals[id] = SumOfEntries(id, rounds)
     /\ \A id \in AllIds :
          LET after == totalScores(FilterOut(players, id), rounds)
          IN /\ DOMAIN after = DOMAIN totals \ {id}
             /\ \A other \in DOMAIN after : after[other] = totals[other]

\* A removed player left a non-zero entry behind and a current player has a
\* non-zero total.
C2_Witness ==
  /\ \E k \in OrphanKeys : SumOfEntries(k, rounds) # 0
  /\ \E id \in PlayerIds(players) : totalScores(players, rounds)[id] # 0

BestTotal(totals, wc) ==
  CHOOSE b \in { totals[id] : id \in DOMAIN totals } :
    \A id \in DOMAIN totals : IF wc = "high" THEN totals[id] <= b ELSE totals[id] >= b

\* C3: with players and a non-zero total, the leader is the first player, in
\* the order of players, whose total is the maximum (high) or the minimum
\* (low) of the current totals.
C3_LeaderIsFirstBest ==
  \A wc \in WinConditions :
    LET totals == totalScores(players, rounds)
        leader == leaderId(players, totals, wc)
    IN (players # <<>> /\ \E id \in DOMAIN totals : totals[id] # 0)
       => /\ ~leader.isNull
          /\ \E j \in 1..Len(players) :
               /\ players[j].id = leader.id
               /\ totals[players[j].id] = BestTotal(totals, wc)
               /\ \A k \in 1..(j - 1) :
                    totals[players[k].id] # BestTotal(totals, wc)

\* Two players with different ids are tied at a non-zero total.
C3_Witness ==
  /\ Len(players) = 2
  /\ players[1].id # players[2].id
  /\ totalScores(players, rounds)[players[1].id] # 0
  /\ totalScores(players, rounds)[players[1].id]
       = totalScores(players, rounds)[players[2].id]

\* C4: there is no leader exactly when there are no players or every current
\* player's total is 0, under both win conditions.
C4_NoLeaderIffAllZero ==
  \A wc \in WinConditions :
    LET totals == totalScores(players, rounds)
    IN leaderId(players, totals, wc).isNull
       <=> (players = <<>> \/ \A id \in PlayerIds(players) : totals[id] = 0)

\* A current player has non-zero entries that sum to 0, every total is 0 and
\* a removed player's non-zero entry is still in a round.
C4_Witness ==
  /\ players # <<>>
  /\ Len(rounds) >= 2
  /\ \E id \in PlayerIds(players) :
       /\ id \in DOMAIN rounds[1] /\ rounds[1][id] # 0
       /\ id \in DOMAIN rounds[2] /\ rounds[2][id] # 0
  /\ \A id \in PlayerIds(players) : totalScores(players, rounds)[id] = 0
  /\ \E k \in OrphanKeys : SumOfEntries(k, rounds) # 0

\* The active round, rounds[activeRoundIndex].
ActiveRound(rs) == rs[activeRoundIndex.n + 1]

\* C5: setScore with the empty string removes the player's entry from the
\* targeted round, so that the round has no key for that player and the
\* total no longer includes the previous value; setScore with "-7" stores -7.
C5_EmptyInputRemovesEntry ==
  [][\A playerId \in AllIds :
       /\ handleScoreChange(playerId, <<>>)
            => /\ playerId \notin DOMAIN ActiveRound(rounds')
               /\ SumOfEntries(playerId, rounds')
                    = SumOfEntries(playerId, rounds)
                        - (IF playerId \in DOMAIN ActiveRound(rounds)
                           THEN ActiveRound(rounds)[playerId] ELSE 0)
       /\ handleScoreChange(playerId, <<"-", "7">>)
            => /\ playerId \in DOMAIN ActiveRound(rounds')
               /\ ActiveRound(rounds')[playerId] = 0 - 7]_vars

\* An optional sign followed by decimal digits only, at least one.
WellFormedInteger(v) ==
  LET u == IF v # <<>> /\ Head(v) \in {"-", "+"} THEN Tail(v) ELSE v
  IN u # <<>> /\ \A i \in 1..Len(u) : IsDigit(u[i])

\* C6: setScore with a rawValue that is neither empty nor a well-formed
\* signed decimal integer changes no field of the GameState.
C6_MalformedInputRejected ==
  [][\A playerId \in AllIds, value \in RawValues :
       (value # <<>> /\ ~WellFormedInteger(value) /\ handleScoreChange(playerId, value))
         => UNCHANGED state]_vars

\* C7: once the writes of a state have completed, the five useState
\* initializers applied to localStorage give back that state, field by field.
C7_RoundTrip ==
  phase = "running"
    => /\ loadPlayers(storage) = [isArray |-> TRUE, arr |-> players]
       /\ loadRounds(storage) = [isArray |-> TRUE, arr |-> rounds]
       /\ loadActiveRoundIndex(storage) = activeRoundIndex
       /\ loadWinCondition(storage) = winCondition
       /\ loadSortBy(storage) = sortBy

\* Every field differs from its default and a negative score is stored.
C7_Witness ==
  /\ phase = "running"
  /\ players # <<>>
  /\ Len(rounds) >= 2
  /\ activeRoundIndex.n >= 1
  /\ winCondition = "low"
  /\ sortBy = "nameAsc"
  /\ \E id \in PlayerIds(players) : id \in DOMAIN rounds[2] /\ rounds[2][id] < 0

MalformedJson(e) == ~e.has \/ e.text.kind # "array"

\* C8: at construction a field whose key is missing or whose text is not a
\* value of the field's type takes its default, no error is raised, and the
\* state has at least one round and an activeRoundIndex in range.
C8_MalformedFallsBackToDefault ==
  [][Mount =>
       /\ phase' # "renderError"
       /\ MalformedJson(storage.cardScore_players) => players' = <<>>
       /\ MalformedJson(storage.cardScore_rounds) => rounds' = <<EmptyRound>>
       /\ (~storage.cardScore_activeRoundIndex.has
             \/ ~WellFormedInteger(storage.cardScore_activeRoundIndex.text))
            => activeRoundIndex' = Num(0)
       /\ (~storage.cardScore_winCondition.has
             \/ storage.cardScore_winCondition.text \notin WinConditions)
            => winCondition' = "high"
       /\ (~storage.cardScore_sortBy.has
             \/ storage.cardScore_sortBy.text \notin SortOptions)
            => sortBy' = "default"
       /\ Len(rounds') >= 1
       /\ ~activeRoundIndex'.nan
       /\ activeRoundIndex'.n \in 0..(Len(rounds') - 1)]_vars

\* C9: the ids of the players in players are pairwise distinct.
C9_PlayerIdsDistinct ==
  \A i, j \in 1..Len(players) : i # j => players[i].id # players[j].id

AllSpaces(raw) == \A k \in 1..Len(raw) : IsSpace(raw[k])

\* t is raw without the white space at its two ends.
IsTrimOf(t, raw) ==
  /\ t # <<>>
  /\ ~IsSpace(t[1])
  /\ ~IsSpace(t[Len(t)])
  /\ \E i \in 0..Len(raw) :
       /\ i + Len(t) <= Len(raw)
       /\ SubSeq(raw, i + 1, i + Len(t)) = t
       /\ \A k \in (1..i) \cup ((i + Len(t) + 1)..Len(raw)) : IsSpace(raw[k])

\* C10: addPlayer(name) changes nothing when name is empty after trimming;
\* otherwise it appends one player with the trimmed name at the end of
\* players, keeps the existing players in order and changes no other field.
C10_AddPlayerAppendsTrimmed ==
  [][\A newPlayerName \in RawNames :
       handleAddPlayer(newPlayerName)
         => IF AllSpaces(newPlayerName)
            THEN UNCHANGED state
            ELSE /\ Len(players') = Len(players) + 1
                 /\ SubSeq(players', 1, Len(players)) = players
                 /\ IsTrimOf(players'[Len(players')].name, newPlayerName)
                 /\ UNCHANGED <<rounds, activeRoundIndex, winCondition, sortBy>>]_vars

\* The name typed with surrounding blanks was added after another player.
C10_Witness ==
  /\ phase = "running"
  /\ Len(players) = 2
  /\ players[1].name = <<"a">>
  /\ players[2].name = <<"b">>

\* C11: removePlayer is idempotent, and removing an absent id changes nothing:
\* after handleDeletePlayer(id), a second handleDeletePlayer(id) would set
\* players to what it already is and touches no other field of the GameState.
C11_RemovePlayerIdempotent ==
  [][\A id \in AllIds :
       handleDeletePlayer(id)
         => /\ FilterOut(players', id) = players'
            /\ id \notin PlayerIds(players')
            /\ UNCHANGED <<rounds, activeRoundIndex, winCondition, sortBy>>
            /\ id \notin PlayerIds(players) => UNCHANGED state]_vars

\* One of two players with different ids has been removed after scoring.
C11_Witness ==
  /\ phase = "running"
  /\ Len(players) = 1
  /\ Cardinality(OrphanKeys) = 1
  /\ players[1].id \in DOMAIN rounds[1]

\* C12: a confirmed resetGame sets rounds to one empty round and
\* activeRoundIndex to 0 and leaves players, winCondition and sortPreference
\* unchanged; a declined resetGame changes nothing.
C12_ResetGameFrame ==
  [][/\ resetGame(TRUE)
          => /\ rounds' = <<EmptyRound>>
             /\ activeRoundIndex' = Num(0)
             /\ UNCHANGED <<players, winCondition, sortBy>>
     /\ resetGame(FALSE) => UNCHANGED state]_vars

\* A confirmed reset of a game in its second round, with players: the single
\* empty round reached localStorage and the write of the index failed.
C12_Witness ==
  /\ phase = "writeError"
  /\ players # <<>>
  /\ rounds = <<EmptyRound>>
  /\ activeRoundIndex = Num(0)
  /\ storage.cardScore_rounds = Stored(JSONstringify(<<EmptyRound>>))
  /\ storage.cardScore_activeRoundIndex = Stored(<<"1">>)

\* C13: rounds contains at least one round in every reachable state.
C13_RoundsNonEmpty == Len(rounds) >= 1

\* A reset has replaced two scored rounds (still the ones in localStorage,
\* the write having failed) by a single round.
C13_Witness ==
  /\ phase = "writeError"
  /\ Len(rounds) = 1
  /\ storage.cardScore_rounds.has
  /\ Len(storage.cardScore_rounds.text.doc) = 2
  /\ storage.cardScore_rounds.text.doc[1] # EmptyRound

\* C14: a write to localStorage that fails after a mutation is caught: the
\* mutation takes effect and the running application does not end up in an
\* error state.
C14_WriteFailureCaught == [][phase = "running" => phase' # "writeError"]_vars

C16_RetreatRoundFrame ==
  [][handlePrevRound
       => /\ rounds' = rounds
          /\ UNCHANGED <<players, winCondition, sortBy>>
          /\ ~activeRoundIndex'.nan
          /\ IF activeRoundIndex.n > 0
             THEN activeRoundIndex'.n = activeRoundIndex.n - 1
             ELSE activeRoundIndex' = activeRoundIndex]_vars

\* The first of two rounds is active again, the second one keeps its score.
C16_Witness ==
  /\ phase = "running"
  /\ Len(rounds) = 2
  /\ rounds[2] # EmptyRound
  /\ activeRoundIndex = Num(0)
  /\ storage.cardScore_activeRoundIndex = Stored(<<"0">>)
  /\ winCondition = "high"

\* How often x occurs in seq.
Occurrences(seq, x) == Cardinality({ i \in 1..Len(seq) : seq[i] = x })

\* a is before b, or equal to it, in the alphabetical order of the names.
NameLeq(a, b) ==
  \/ \E k \in 1..Len(a) :
       /\ k <= Len(b)
       /\ SubSeq(a, 1, k - 1) = SubSeq(b, 1, k - 1)
       /\ \E i, j \in 1..Len(Alphabet) : i < j /\ Alphabet[i] = a[k] /\ Alphabet[j] = b[k]
  \/ (Len(a) <= Len(b) /\ a = SubSeq(b, 1, Len(a)))

\* C17: for every sort preference the sorted players are a permutation of
\* players and players itself is unchanged; the result is players under
\* InsertionOrder, has non-increasing totals under ScoreDescending,
\* non-decreasing totals under ScoreAscending and ascending names under
\* NameAscending.
C17_SortedPlayers ==
  \A sb \in SortOptions :
    LET totals == totalScores(players, rounds)
        result == sortedPlayers(players, totals, sb)
        sorted == result.sorted
    IN /\ result.players = players
       /\ Len(sorted) = Len(players)
       /\ \A i \in 1..Len(players) :
            Occurrences(sorted, players[i]) = Occurrences(players, players[i])
       /\ sb = "default" => sorted = players
       /\ sb = "scoreDesc"
            => \A i \in 1..(Len(sorted) - 1) :
                 totals[sorted[i].id] >= totals[sorted[i + 1].id]
       /\ sb = "scoreAsc"
            => \A i \in 1..(Len(sorted) - 1) :
                 totals[sorted[i].id] <= totals[sorted[i + 1].id]
       /\ sb = "nameAsc"
            => \A i \in 1..(Len(sorted) - 1) :
                 NameLeq(sorted[i].name, sorted[i + 1].name)

\* The spec's scenario: three players, the first with the lowest total and
\* the other two tied above it, sorted by score descending after the user
\* picked that order; sorting by name gives yet another order.
C17_Witness ==
  /\ phase = "running"
  /\ Len(players) = 3
  /\ sortBy = "scoreDesc"
  /\ LET totals == totalScores(players, rounds)
     IN /\ totals[players[1].id] < totals[players[2].id]
        /\ totals[players[2].id] = totals[players[3].id]
        /\ players[2].id # players[3].id
        /\ sortedPlayers(players, totals, "scoreDesc").sorted
             = <<players[2], players[3], players[1]>>
        /\ sortedPlayers(players, totals, "nameAsc").sorted # players

\* C18: advanceRound increments activeRoundIndex by exactly one; it appends
\* exactly one empty round when the index was the last one and leaves rounds
\* as it is otherwise, so that it never removes, reorders or modifies a
\* round. After retreatRound the index is not the last one, hence the
\* advanceRound that follows changes no round and restores the index.
C18_AdvanceRoundAppendsOnlyAtEnd ==
  [][/\ handleNextRound
          => /\ activeRoundIndex' = Num(activeRoundIndex.n + 1)
             /\ SubSeq(rounds', 1, Len(rounds)) = rounds
             /\ IF activeRoundIndex.n = Len(rounds) - 1
                THEN rounds' = rounds \o <<EmptyRound>>
                ELSE rounds' = rounds
             /\ UNCHANGED <<players, winCondition, sortBy>>
     /\ (handlePrevRound /\ activeRoundIndex.n > 0)
          => /\ activeRoundIndex'.n < Len(rounds') - 1
             /\ Num(activeRoundIndex'.n + 1) = activeRoundIndex
             /\ rounds' = rounds]_vars

\* Both rounds hold scores and the second one is active, its index written.
C18_Witness ==
  /\ phase = "running"
  /\ Len(rounds) = 2
  /\ rounds[1] # EmptyRound
  /\ rounds[2] # EmptyRound
  /\ activeRoundIndex = Num(1)
  /\ storage.cardScore_activeRoundIndex = Stored(<<"1">>)

\* C19: an accepted setScore changes only the entry of the given player in
\* the active round: the number of rounds, every other round, every other
\* entry of the active round, players, activeRoundIndex, winCondition and
\* sortPreference are unchanged.
C19_SetScoreFrame ==
  [][\A playerId \in AllIds, value \in RawValues :
       handleScoreChange(playerId, value)
         => /\ Len(rounds') = Len(rounds)
            /\ \A i \in 1..Len(rounds) :
                 i # activeRoundIndex.n + 1 => rounds'[i] = rounds[i]
            /\ DOMAIN ActiveRound(rounds') \ {playerId}
                 = DOMAIN ActiveRound(rounds) \ {playerId}
            /\ \A other \in DOMAIN ActiveRound(rounds) \ {playerId} :
                 ActiveRound(rounds')[other] = ActiveRound(rounds)[other]
            /\ UNCHANGED <<players, activeRoundIndex, winCondition, sortBy>>]_vars

\* Two players have different non-zero scores in the second round and the
\* first round holds a score too.
C19_Witness ==
  /\ phase = "running"
  /\ Len(rounds) = 2
  /\ rounds[1] # EmptyRound
  /\ \E p, q \in PlayerIds(players) :
       /\ p \in DOMAIN rounds[2] /\ q \in DOMAIN rounds[2]
       /\ rounds[2][p] > 0 /\ rounds[2][q] < 0

\* C20: removePlayer(id) removes the players with that id, keeps the others
\* in their order and leaves rounds (the entries of the removed id included),
\* activeRoundIndex, winCondition and sortPreference unchanged.
C20_RemovePlayerFrame ==
  [][\A id \in AllIds :
       handleDeletePlayer(id)
         => /\ players' = SelectSeq(players, LAMBDA p : p.id # id)
            /\ rounds' = rounds
            /\ \A i \in 1..Len(rounds) :
                 id \in DOMAIN rounds[i]
                   => id \in DOMAIN rounds'[i] /\ rounds'[i][id] = rounds[i][id]
            /\ UNCHANGED <<activeRoundIndex, winCondition, sortBy>>]_vars

\* The first of two players has been removed: the one left was added later
\* and both rounds still hold the removed player's scores.
C20_Witness ==
  /\ phase = "running"
  /\ Len(players) = 1
  /\ Len(rounds) = 2
  /\ \E k \in OrphanKeys :
       /\ parseInt(k).n < parseInt(players[1].id).n
       /\ k \in DOMAIN rounds[1] /\ rounds[1][k] # 0
       /\ k \in DOMAIN rounds[2] /\ rounds[2][k] # 0

\* C21: immediately after a successful addPlayer the new player's total is 0:
\* entries left behind in the rounds by a removed player are never attributed
\* to a player added later.  Stated for the additions whose id is the id of no
\* current player, so that the total can only come from entries left behind.
C21_NewPlayerTotalZero ==
  [][\A newPlayerName \in RawNames :
       (/\ handleAddPlayer(newPlayerName)
        /\ Len(players') = Len(players) + 1
        /\ phase' = "running"
        /\ players'[Len(players')].id \notin PlayerIds(players))
         => totalScores(players', rounds')[players'[Len(players')].id] = 0]_vars

====
